---- MODULE Spec2Model ----
(***************************************************************************)
(* Model of notebooks/03_train_model.ipynb: the train-delay training       *)
(* notebook.  The notebook is a sequence of cells run top to bottom; an    *)
(* uncaught exception in a cell ends the run.  The run starts in a fresh    *)
(* kernel.  The cells that only print or plot (data exploration, the       *)
(* prediction scatter plots, the importance chart, the summary) bind       *)
(* nothing that a later cell reads, except feature_names, and are left     *)
(* out; the column df['route'] that the plotting cell adds is overwritten  *)
(* by create_features.  The fitted regressors are opaque: what predict     *)
(* returns is any value of RawOutputs.                                     *)
(*                                                                         *)
(* Numbers.  The notebook computes with real (floating point) numbers.     *)
(* Here a real is an exact rational [num, den] in lowest terms, and the    *)
(* non-negative square root of a rational q (np.sqrt, pandas std) is the   *)
(* value Sqrt(q), which carries its radicand: square root is injective     *)
(* and increasing on the non-negative rationals, so equality and order of  *)
(* roots are equality and order of radicands.  Rounding of floating point  *)
(* arithmetic is not modelled.                                             *)
(***************************************************************************)
EXTENDS Integers, Sequences, FiniteSets, TLC

VARIABLES
    pc,             \* the cell (or step) the notebook run has reached
    names,          \* the notebook globals that are bound
    conn,           \* the database connection: "none", "open" or "closed"
    connects,       \* number of pyodbc.connect calls
    queries,        \* number of pd.read_sql calls
    console,        \* what the cells printed, in order
    df,             \* the record set loaded by pd.read_sql
    df_features,    \* create_features(df)
    X, y,           \* feature matrix (route encoded) and target
    label_encoders, \* the fitted encoders, by name
    X_train, X_test, y_train, y_test,
    fitted,         \* the models that have been fitted
    raw_pred,       \* model.predict(X_test) of each evaluated model
    xgb_results, rf_results,
    evaluated,      \* the model names in the order evaluate_model saw them
    best_model, best_model_name, best_results,
    feature_names,
    files,          \* the content of the three artifact files
    written,        \* the artifact files written by this run
    sample_k,       \* position of the sample cell's loop
    call            \* the last call of make_sample_prediction

-----------------------------------------------------------------------------
(* Exact arithmetic                                                        *)

Abs(n) == IF n < 0 THEN -n ELSE n

RECURSIVE GCD(_, _)
GCD(a, b) == IF b = 0 THEN a ELSE GCD(b, a % b)

\* the rational n/d (d > 0) in lowest terms
Rat(n, d) ==
    LET g == GCD(Abs(n), d)
    IN  [num |-> n \div g, den |-> d \div g]

RatLt(a, b) == a.num * b.den < b.num * a.den

\* the non-negative square root of the rational q >= 0
Sqrt(q) == [radicand |-> q]

SqrtLt(a, b) == RatLt(a.radicand, b.radicand)

\* floating point not-a-number
NaN == [nan |-> TRUE]

RECURSIVE SumSeq(_)
SumSeq(s) == IF s = <<>> THEN 0 ELSE Head(s) + SumSeq(Tail(s))

-----------------------------------------------------------------------------
(* 3. Feature engineering: create_features                                 *)

\* df['from_station'] + '_' + df['to_station']
RouteKey(r) == r.from_station \o "_" \o r.to_station

\* Series.mean()
Mean(xs) == Rat(SumSeq(xs), Len(xs))

\* Series.std(): the sample standard deviation (ddof = 1), NaN for one value
Std(xs) ==
    LET n  == Len(xs)
        s  == SumSeq(xs)
        s2 == SumSeq([i \in 1..n |-> xs[i] * xs[i]])
    IN  IF n < 2 THEN NaN
        ELSE Sqrt(Rat(n * s2 - s * s, n * (n - 1)))

\* the statistics of the whole column under every key (groupby left out)
RouteStatsUngrouped(rows) ==
    LET keys   == {rows[i].route : i \in 1..Len(rows)}
        delays == [i \in 1..Len(rows) |-> rows[i].delay]
    IN  [k \in keys |->
            [route_avg_delay |-> Mean(delays),
             route_std_delay |-> Std(delays),
             route_count     |-> Len(delays)]]

\* df.groupby('route')['delay'].agg(['mean', 'std', 'count']): one row of
\* statistics per distinct route key
RouteStats(rows) ==
    LET keys == {rows[i].route : i \in 1..Len(rows)}
    IN  [k \in keys |->
            LET grp    == SelectSeq(rows, LAMBDA r : r.route = k)
                delays == [i \in 1..Len(grp) |-> grp[i].delay]
            IN  [route_avg_delay |-> Mean(delays),
                 route_std_delay |-> Std(delays),
                 route_count     |-> Len(delays)]]

\* fillna left out: a missing standard deviation stays NaN
FillNaMissing(v) == v

\* Series.fillna(0)
FillNa0(v) == IF v = NaN THEN Sqrt(Rat(0, 1)) ELSE v

IsRushHour(hour) == (hour >= 7 /\ hour <= 9) \/ (hour >= 17 /\ hour <= 19)

\* the night window stretched by one hour
IsNightUntil7(hour) == hour <= 7 \/ hour >= 22

IsNight(hour) == hour <= 6 \/ hour >= 22

\* np.sin(2 * np.pi * hour / 24) and np.cos(2 * np.pi * hour / 24), kept as
\* the fraction of a full turn they are taken at
HourSin(hour) == [sin_turns |-> Rat(hour % 24, 24)]

HourCos(hour) == [cos_turns |-> Rat(hour % 24, 24)]

\* np.sqrt((to_lat - from_lat)**2 + (to_long - from_long)**2) * 111
RouteDistance(r) ==
    LET dlat  == r.to_lat - r.from_lat
        dlong == r.to_long - r.from_long
    IN  Sqrt(Rat((dlat * dlat + dlong * dlong) * 111 * 111, 1))

\* the columns added before the route statistics
WithRoute(rows) ==
    [i \in 1..Len(rows) |->
        LET r == rows[i]
        IN  [from_station |-> r.from_station, to_station |-> r.to_station,
             hour |-> r.hour, delay |-> r.delay,
             from_lat |-> r.from_lat, from_long |-> r.from_long,
             to_lat |-> r.to_lat, to_long |-> r.to_long,
             route |-> RouteKey(r),
             hour_sin |-> HourSin(r.hour), hour_cos |-> HourCos(r.hour),
             route_distance |-> RouteDistance(r)]]

\* df.merge(route_stats, on='route', how='left'): route_stats has one row
\* per key, so every left row is matched exactly once and keeps its place
MergeLeft(rows, route_stats) ==
    [i \in 1..Len(rows) |->
        LET r  == rows[i]
            st == route_stats[r.route]
        IN  [from_station |-> r.from_station, to_station |-> r.to_station,
             hour |-> r.hour, delay |-> r.delay,
             from_lat |-> r.from_lat, from_long |-> r.from_long,
             to_lat |-> r.to_lat, to_long |-> r.to_long,
             route |-> r.route,
             hour_sin |-> r.hour_sin, hour_cos |-> r.hour_cos,
             route_distance |-> r.route_distance,
             route_avg_delay |-> st.route_avg_delay,
             route_std_delay |-> st.route_std_delay,
             route_count     |-> st.route_count]]

\* the columns added after the merge
Indicators(rows) ==
    [i \in 1..Len(rows) |->
        LET r == rows[i]
        IN  [from_station |-> r.from_station, to_station |-> r.to_station,
             hour |-> r.hour, delay |-> r.delay,
             from_lat |-> r.from_lat, from_long |-> r.from_long,
             to_lat |-> r.to_lat, to_long |-> r.to_long,
             route |-> r.route,
             hour_sin |-> r.hour_sin, hour_cos |-> r.hour_cos,
             route_distance |-> r.route_distance,
             route_avg_delay |-> r.route_avg_delay,
             route_std_delay |-> FillNa0(r.route_std_delay),
             route_count     |-> r.route_count,
             is_rush_hour    |-> IsRushHour(r.hour),
             is_night        |-> IsNight(r.hour)]]

\* create_features(df): one output row per input row, in input order
create_features(rows) ==
    LET withRoute == WithRoute(rows)
    IN  Indicators(MergeLeft(withRoute, RouteStats(withRoute)))

-----------------------------------------------------------------------------
(* 3. Feature matrix and label encoding                                    *)

feature_columns ==
    << "hour", "hour_sin", "hour_cos", "route_distance",
       "route_avg_delay", "route_std_delay", "route_count",
       "is_rush_hour", "is_night", "route" >>

\* the route keys over the station codes, in Python's string order
RouteKeyOrder == << "A_B", "A_B_B", "A_B_B_B" >>

\* the values kept as they come, neither sorted nor made distinct
LabelEncoderFitAsGiven(values) == [classes_ |-> values]

\* LabelEncoder().fit(values): classes_ is the sorted distinct values
LabelEncoderFit(values) ==
    [classes_ |->
        SelectSeq(RouteKeyOrder,
                  LAMBDA k : \E i \in 1..Len(values) : values[i] = k)]

\* le.transform([key])[0]: the position of key in classes_, from 0; a key
\* that was not fitted raises ValueError
LabelEncoderTransform(le, key) ==
    IF \E i \in 1..Len(le.classes_) : le.classes_[i] = key
    THEN [raised |-> FALSE,
          code |-> (CHOOSE i \in 1..Len(le.classes_) : le.classes_[i] = key) - 1]
    ELSE [raised |-> TRUE, code |-> -1]

\* X = df_features[feature_columns] with X['route'] = le.fit_transform(...)
FeatureMatrix(rows, le) ==
    [i \in 1..Len(rows) |->
        LET r == rows[i]
        IN  [hour |-> r.hour, hour_sin |-> r.hour_sin, hour_cos |-> r.hour_cos,
             route_distance |-> r.route_distance,
             route_avg_delay |-> r.route_avg_delay,
             route_std_delay |-> r.route_std_delay,
             route_count |-> r.route_count,
             is_rush_hour |-> r.is_rush_hour, is_night |-> r.is_night,
             route |-> LabelEncoderTransform(le, r.route).code]]

-----------------------------------------------------------------------------
(* 5. Model evaluation: evaluate_model                                     *)

\* what a fitted regressor may return for one row; the models are opaque
RawOutputs == {-2, 0, 3, 6}

\* sklearn r2_score: NaN for fewer than two samples; for a constant target
\* 1 when the predictions are exact and 0 otherwise
R2Score(y_true, y_pred) ==
    LET n   == Len(y_true)
        res == SumSeq([i \in 1..n |-> (y_true[i] - y_pred[i]) * (y_true[i] - y_pred[i])])
        s   == SumSeq(y_true)
        s2  == SumSeq([i \in 1..n |-> y_true[i] * y_true[i]])
        tot == n * s2 - s * s
    IN  IF n < 2 THEN NaN
        ELSE IF tot = 0 THEN (IF res = 0 THEN Rat(1, 1) ELSE Rat(0, 1))
        ELSE Rat(tot - n * res, tot)

\* the clamp left out
ClampMissing(v) == v

\* np.maximum(y_pred, 0)
ClampAtZero(v) == [i \in 1..Len(v) |-> IF v[i] > 0 THEN v[i] ELSE 0]

\* evaluate_model(model, X_test, y_test, model_name), where raw is the value
\* of model.predict(X_test)
evaluate_model(raw, y_true) ==
    LET n      == Len(y_true)
        y_pred == ClampAtZero(raw)
        mse    == Rat(SumSeq([i \in 1..n |-> (y_true[i] - y_pred[i]) * (y_true[i] - y_pred[i])]), n)
        mae    == Rat(SumSeq([i \in 1..n |-> Abs(y_true[i] - y_pred[i])]), n)
        r2     == R2Score(y_true, y_pred)
        rmse   == Sqrt(mse)
    IN  [predictions |-> y_pred, rmse |-> rmse, mae |-> mae, r2 |-> r2]

\* the value of a results name before evaluate_model has bound it
NoResults == [predictions |-> <<>>, rmse |-> NaN, mae |-> NaN, r2 |-> NaN]

-----------------------------------------------------------------------------
(* 7. make_sample_prediction                                               *)

\* what a call returns: None, a number, or an exception
None == [none |-> TRUE]

NoCall ==
    [from_station |-> "", to_station |-> "", hour |-> 0,
     returned |-> None, printed |-> <<>>,
     encoder_calls |-> 0, predict_calls |-> 0]

\* the missing route answered with 0
make_sample_prediction_zero(from_station, to_station, hour, raw) ==
    [from_station |-> from_station, to_station |-> to_station, hour |-> hour,
     returned |-> [value |-> 0], printed |-> <<>>,
     encoder_calls |-> 0, predict_calls |-> 0]

\* make_sample_prediction(from_station, to_station, hour), where raw is what
\* best_model.predict returns if it is called
make_sample_prediction(from_station, to_station, hour, raw) ==
    LET sample_route ==
            SelectSeq(df_features,
                      LAMBDA r : r.from_station = from_station
                                 /\ r.to_station = to_station)
        args == [from_station |-> from_station, to_station |-> to_station,
                 hour |-> hour]
    IN  IF sample_route = <<>>
        THEN args @@ [returned |-> None,
                      printed |-> << "No data found for route" >>,
                      encoder_calls |-> 0, predict_calls |-> 0]
        ELSE
            LET route_data == sample_route[1]
                code == LabelEncoderTransform(label_encoders.route_encoder,
                                              route_data.route)
            IN  IF code.raised
                THEN args @@ [returned |-> [raised |-> "ValueError"],
                              printed |-> <<>>,
                              encoder_calls |-> 1, predict_calls |-> 0]
                ELSE args @@ [\* max(0, prediction)
                              returned |-> [value |-> IF 0 >= raw THEN 0 ELSE raw],
                              printed |-> <<>>,
                              encoder_calls |-> 1, predict_calls |-> 1]

\* df_features[['from_station', 'to_station']].drop_duplicates().head(5)
RECURSIVE DropDuplicates(_, _)
DropDuplicates(pairs, seen) ==
    IF pairs = <<>> THEN <<>>
    ELSE IF Head(pairs) \in seen THEN DropDuplicates(Tail(pairs), seen)
    ELSE <<Head(pairs)>> \o DropDuplicates(Tail(pairs), seen \cup {Head(pairs)})

sample_routes ==
    LET pairs == [i \in 1..Len(df_features) |->
                    <<df_features[i].from_station, df_features[i].to_station>>]
        uniq  == DropDuplicates(pairs, {})
    IN  SubSeq(uniq, 1, IF Len(uniq) < 5 THEN Len(uniq) ELSE 5)

test_hours == << 8, 14, 18 >>

-----------------------------------------------------------------------------
(* Record sets the query can return                                        *)

MaxRows == 3
MaxHourRows == 1
MaxPipeRows == 2
MaxTest == 2
MaxEncodeRows == 3

\* station codes; the code "A_B" makes two different station pairs share a
\* route key ("A" + "_" + "B_B" = "A_B" + "_" + "B")
FromStations == {"A", "A_B"}
ToStations == {"B", "B_B"}
Delays == {3, 5, 7}
SampleHours == {8, 20}
AllHours == 0..23

\* the station table: latitude and longitude of each station code
StationCoord ==
    [s \in FromStations \cup ToStations |->
        CASE s = "A"   -> [latitude |-> 0, longitude |-> 0]
          [] s = "A_B" -> [latitude |-> 1, longitude |-> 0]
          [] s = "B"   -> [latitude |-> 3, longitude |-> 4]
          [] s = "B_B" -> [latitude |-> 1, longitude |-> 2]]

\* one row of the query: a departure joined with the coordinates of its
\* two stations (train_signature_code, which nothing reads, is left out)
QueryRow(f, t, h, d) ==
    [from_station |-> f, to_station |-> t, hour |-> h, delay |-> d,
     from_lat |-> StationCoord[f].latitude,
     from_long |-> StationCoord[f].longitude,
     to_lat |-> StationCoord[t].latitude,
     to_long |-> StationCoord[t].longitude]

Records(froms, tos, hours, delays) ==
    {QueryRow(f, t, h, d) :
        f \in froms, t \in tos, h \in hours, d \in delays}

RecordSets(rows, minRows, maxRows) ==
    UNION {[1..n -> rows] : n \in minRows..maxRows}

\* the record sets of the whole-run specification
PipeRecordSets ==
    RecordSets(Records(FromStations, {"B"}, {8}, {3, 5}), 0, MaxPipeRows)

-----------------------------------------------------------------------------
(* The run of the notebook, cell by cell                                   *)

vars ==
    << pc, names, conn, connects, queries, console, df, df_features, X, y,
       label_encoders, X_train, X_test, y_train, y_test, fitted, raw_pred,
       xgb_results, rf_results, evaluated, best_model, best_model_name,
       best_results, feature_names, files, written, sample_k, call >>

connVars == << conn, connects, queries >>
dataVars == << df, df_features, X, y, label_encoders >>
splitVars == << X_train, X_test, y_train, y_test >>
evalVars == << raw_pred, xgb_results, rf_results, evaluated >>
bestVars == << best_model, best_model_name, best_results >>
fileVars == << files, written >>
sampleVars == << sample_k, call >>

ArtifactFiles == {"trained_model.pkl", "encoders.pkl", "model_info.json"}

\* a fresh kernel: nothing is bound; the artifact files are absent or left
\* by an earlier run
NoConnection ==
    /\ names = {}
    /\ conn = "none" /\ connects = 0 /\ queries = 0
    /\ console = <<>>

NoMatrix ==
    /\ X = <<>> /\ y = <<>>
    /\ label_encoders = [route_encoder |-> [classes_ |-> <<>>]]

NoSplit ==
    /\ X_train = <<>> /\ X_test = <<>> /\ y_train = <<>>

NoModels ==
    /\ fitted = {}
    /\ evaluated = <<>>
    /\ rf_results = NoResults
    /\ best_model = "" /\ best_model_name = "" /\ best_results = NoResults
    /\ feature_names = <<>>
    /\ written = {}
    /\ sample_k = 0
    /\ call = NoCall

NothingBound ==
    /\ NoConnection /\ NoMatrix /\ NoSplit /\ NoModels
    /\ y_test = <<>>
    /\ raw_pred = [xgb_model |-> <<>>, rf_model |-> <<>>]
    /\ xgb_results = NoResults

Init ==
    /\ pc = "connect"
    /\ df = <<>> /\ df_features = <<>>
    /\ NothingBound
    /\ \E old \in {"absent", "earlier run"} :
            files = [f \in ArtifactFiles |-> [kind |-> old]]

\* an uncaught exception ends the run
Raise(exception) ==
    /\ pc' = "aborted"
    /\ console' = Append(console, exception)

\* cell 1: pyodbc.connect inside try/except Exception
Connect ==
    /\ pc = "connect"
    /\ connects' = connects + 1
    /\ \/ /\ conn' = "open"
          /\ names' = names \cup {"conn"}
          /\ console' = Append(console, "Successfully connected")
       \/ /\ console' = console \o << "Connection failed", "Please update your database credentials above" >>
          /\ UNCHANGED << conn, names >>
    /\ pc' = "load"
    /\ UNCHANGED << queries, dataVars, splitVars, fitted, evalVars, bestVars,
                    feature_names, fileVars, sampleVars >>

\* the data loading cell run whether or not conn is bound
LoadDataUnguarded ==
    /\ pc = "load"
    /\ queries' = queries + 1
    /\ \E rows \in PipeRecordSets : df' = rows
    /\ names' = names \cup {"df"}
    /\ console' = Append(console, "Loaded records")
    /\ pc' = "features"
    /\ UNCHANGED << conn, connects, df_features, X, y, label_encoders,
                    splitVars, fitted, evalVars, bestVars, feature_names,
                    fileVars, sampleVars >>

\* cell 2: df = pd.read_sql(query, conn).  The argument conn is evaluated
\* before pd.read_sql is called: unbound, it raises NameError.
LoadData ==
    /\ pc = "load"
    /\ \/ /\ "conn" \notin names
          /\ Raise("NameError: name 'conn' is not defined")
          /\ UNCHANGED << queries, df, names >>
       \/ /\ "conn" \in names
          /\ queries' = queries + 1
          /\ \/ /\ Raise("DatabaseError")
                /\ UNCHANGED << df, names >>
             \/ /\ \E rows \in PipeRecordSets : df' = rows
                /\ names' = names \cup {"df"}
                /\ console' = Append(console, "Loaded records")
                /\ pc' = "features"
    /\ UNCHANGED << conn, connects, df_features, X, y, label_encoders,
                    splitVars, fitted, evalVars, bestVars, feature_names,
                    fileVars, sampleVars >>

\* cell 5: df_features = create_features(df)
CreateFeatures ==
    /\ pc = "features"
    /\ df_features' = create_features(df)
    /\ names' = names \cup {"df_features"}
    /\ pc' = "prepare"
    /\ UNCHANGED << connVars, console, df, X, y, label_encoders, splitVars,
                    fitted, evalVars, bestVars, feature_names, fileVars,
                    sampleVars >>

\* cell 6: X, y and the route encoder
PrepareFeatures ==
    /\ pc = "prepare"
    /\ LET le == LabelEncoderFit([i \in 1..Len(df_features) |-> df_features[i].route])
       IN  /\ X' = FeatureMatrix(df_features, le)
           /\ label_encoders' = [route_encoder |-> le]
    /\ y' = [i \in 1..Len(df_features) |-> df_features[i].delay]
    /\ names' = names \cup {"X", "y", "label_encoders"}
    /\ pc' = "split"
    /\ UNCHANGED << connVars, console, df, df_features, splitVars, fitted,
                    evalVars, bestVars, feature_names, fileVars, sampleVars >>

\* the rows of s at the indices idx, in index order
RECURSIVE Take(_, _, _)
Take(s, idx, i) ==
    IF i > Len(s) THEN <<>>
    ELSE IF i \in idx THEN <<s[i]>> \o Take(s, idx, i + 1)
    ELSE Take(s, idx, i + 1)

\* cell 7: train_test_split(X, y, test_size=0.2, random_state=42).  The test
\* set has ceil(0.2 n) rows and the training set floor(0.8 n); an empty
\* training set raises ValueError.  Which rows the seeded shuffle sends to
\* the test set is left open.
SplitData ==
    /\ pc = "split"
    /\ LET n       == Len(X)
           n_test  == (n + 4) \div 5
           n_train == (4 * n) \div 5
       IN  \/ /\ n_train = 0
              /\ Raise("ValueError: the resulting train set will be empty")
              /\ UNCHANGED << names, splitVars >>
           \/ /\ n_train > 0
              /\ \E test \in SUBSET (1..n) :
                    /\ Cardinality(test) = n_test
                    /\ X_test' = Take(X, test, 1)
                    /\ y_test' = Take(y, test, 1)
                    /\ X_train' = Take(X, (1..n) \ test, 1)
                    /\ y_train' = Take(y, (1..n) \ test, 1)
              /\ names' = names \cup {"X_train", "X_test", "y_train", "y_test"}
              /\ pc' = "train_xgb"
              /\ UNCHANGED console
    /\ UNCHANGED << connVars, dataVars, fitted, evalVars, bestVars,
                    feature_names, fileVars, sampleVars >>

\* cell 8: xgb_model.fit(X_train, y_train)
TrainXGBoost ==
    /\ pc = "train_xgb"
    /\ fitted' = fitted \cup {"xgb_model"}
    /\ names' = names \cup {"xgb_model"}
    /\ pc' = "train_rf"
    /\ UNCHANGED << connVars, console, dataVars, splitVars, evalVars, bestVars,
                    feature_names, fileVars, sampleVars >>

\* cell 9: rf_model.fit(X_train, y_train)
TrainRandomForest ==
    /\ pc = "train_rf"
    /\ fitted' = fitted \cup {"rf_model"}
    /\ names' = names \cup {"rf_model"}
    /\ pc' = "evaluate"
    /\ UNCHANGED << connVars, console, dataVars, splitVars, evalVars, bestVars,
                    feature_names, fileVars, sampleVars >>

\* cell 10: evaluate_model on xgb_model, then on rf_model
EvaluateBoth ==
    /\ pc = "evaluate"
    /\ \E raw_xgb, raw_rf \in [1..Len(y_test) -> RawOutputs] :
          /\ raw_pred' = [xgb_model |-> raw_xgb, rf_model |-> raw_rf]
          /\ xgb_results' = evaluate_model(raw_xgb, y_test)
          /\ rf_results' = evaluate_model(raw_rf, y_test)
    /\ evaluated' = evaluated \o << "XGBoost", "Random Forest" >>
    /\ names' = names \cup {"xgb_results", "rf_results"}
    /\ pc' = "importance"
    /\ UNCHANGED << connVars, console, dataVars, splitVars, fitted, bestVars,
                    feature_names, fileVars, sampleVars >>

\* cell 12: feature_names = X.columns
FeatureImportance ==
    /\ pc = "importance"
    /\ feature_names' = feature_columns
    /\ names' = names \cup {"feature_names"}
    /\ pc' = "select"
    /\ UNCHANGED << connVars, console, dataVars, splitVars, fitted, evalVars,
                    bestVars, fileVars, sampleVars >>

\* the comparison turned round
SelectHigherRmse ==
    IF SqrtLt(rf_results.rmse, xgb_results.rmse)
    THEN [model |-> "xgb_model", name |-> "XGBoost", results |-> xgb_results]
    ELSE [model |-> "rf_model", name |-> "Random Forest", results |-> rf_results]

\* the comparison made with <=
SelectLowerOrEqualRmse ==
    IF ~SqrtLt(rf_results.rmse, xgb_results.rmse)
    THEN [model |-> "xgb_model", name |-> "XGBoost", results |-> xgb_results]
    ELSE [model |-> "rf_model", name |-> "Random Forest", results |-> rf_results]

\* if xgb_results['rmse'] < rf_results['rmse']: ... else: ...
SelectedModel ==
    IF SqrtLt(xgb_results.rmse, rf_results.rmse)
    THEN [model |-> "xgb_model", name |-> "XGBoost", results |-> xgb_results]
    ELSE [model |-> "rf_model", name |-> "Random Forest", results |-> rf_results]

\* cell 13: select the best model based on RMSE
SelectBest ==
    /\ pc = "select"
    /\ best_model' = SelectedModel.model
    /\ best_model_name' = SelectedModel.name
    /\ best_results' = SelectedModel.results
    /\ names' = names \cup {"best_model", "best_model_name", "best_results"}
    /\ console' = Append(console, "Best Model")
    /\ pc' = "save_model"
    /\ UNCHANGED << connVars, dataVars, splitVars, fitted, evalVars,
                    feature_names, fileVars, sampleVars >>

\* one write of the save cell: the file gets the content, or the write
\* raises OSError and leaves the file as it was
WriteFile(at, file, content, then) ==
    /\ pc = at
    /\ \/ /\ files' = [files EXCEPT ![file] = content]
          /\ written' = written \cup {file}
          /\ console' = Append(console, "Saved " \o file)
          /\ pc' = then
       \/ /\ Raise("OSError")
          /\ UNCHANGED fileVars
    /\ UNCHANGED << names, connVars, dataVars, splitVars, fitted, evalVars,
                    bestVars, feature_names, sampleVars >>

\* the metadata written with the results of the XGBoost model, whichever
\* model was selected
ModelInfoOfXGBoost ==
    [kind |-> "json",
     feature_names |-> feature_names,
     model_type |-> best_model_name,
     performance |-> [rmse |-> xgb_results.rmse, mae |-> xgb_results.mae,
                      r2 |-> xgb_results.r2]]

\* feature_info
ModelInfo ==
    [kind |-> "json",
     feature_names |-> feature_names,
     model_type |-> best_model_name,
     performance |-> [rmse |-> best_results.rmse, mae |-> best_results.mae,
                      r2 |-> best_results.r2]]

\* cell 14: joblib.dump(best_model, 'trained_model.pkl')
SaveModel ==
    WriteFile("save_model", "trained_model.pkl",
              [kind |-> "model", object |-> best_model], "save_encoders")

\* cell 14: joblib.dump(label_encoders, 'encoders.pkl')
SaveEncoders ==
    WriteFile("save_encoders", "encoders.pkl",
              [kind |-> "encoders", object |-> label_encoders], "save_info")

\* cell 14: json.dump(feature_info, f)
SaveModelInfo ==
    WriteFile("save_info", "model_info.json", ModelInfo, "sample")

\* cell 15: the loop over sample_routes and the hours 8, 14, 18, one call of
\* make_sample_prediction at a time
SampleCell ==
    /\ pc = "sample"
    /\ LET n_calls == Len(sample_routes) * Len(test_hours)
       IN  \/ /\ sample_k < n_calls
              /\ LET route == sample_routes[(sample_k \div Len(test_hours)) + 1]
                     hour  == test_hours[(sample_k % Len(test_hours)) + 1]
                 IN  \E raw \in RawOutputs :
                        call' = make_sample_prediction(route[1], route[2], hour, raw)
              /\ sample_k' = sample_k + 1
              /\ IF call'.returned = [raised |-> "ValueError"]
                 THEN Raise("ValueError: y contains previously unseen labels")
                 ELSE /\ pc' = pc
                      /\ console' = console \o call'.printed
           \/ /\ sample_k = n_calls
              /\ pc' = "close"
              /\ UNCHANGED << console, sampleVars >>
    /\ UNCHANGED << names, connVars, dataVars, splitVars, fitted, evalVars,
                    bestVars, feature_names, fileVars >>

\* cell 17: conn.close()
CloseConnection ==
    /\ pc = "close"
    /\ conn' = "closed"
    /\ console' = Append(console, "Database connection closed")
    /\ pc' = "done"
    /\ UNCHANGED << names, connects, queries, dataVars, splitVars, fitted,
                    evalVars, bestVars, feature_names, fileVars, sampleVars >>

Next ==
    \/ Connect
    \/ LoadData
    \/ CreateFeatures
    \/ PrepareFeatures
    \/ SplitData
    \/ TrainXGBoost
    \/ TrainRandomForest
    \/ EvaluateBoth
    \/ FeatureImportance
    \/ SelectBest
    \/ SaveModel
    \/ SaveEncoders
    \/ SaveModelInfo
    \/ SampleCell
    \/ CloseConnection

Spec == Init /\ [][Next]_vars

-----------------------------------------------------------------------------
(* Specification SpecFeat: create_features applied to any record set       *)

\* everything but pc, df and df_features at rest
OnlyFeatures ==
    /\ NothingBound
    /\ files = [f \in ArtifactFiles |-> [kind |-> "absent"]]

InitFeat ==
    /\ pc = "input"
    /\ df \in RecordSets(Records(FromStations, ToStations, SampleHours, Delays),
                         0, MaxRows)
    /\ df_features = <<>>
    /\ OnlyFeatures

ApplyCreateFeatures ==
    /\ pc = "input"
    /\ df_features' = create_features(df)
    /\ pc' = "output"
    /\ UNCHANGED << names, connVars, console, df, X, y, label_encoders,
                    splitVars, fitted, evalVars, bestVars, feature_names,
                    fileVars, sampleVars >>

NextFeat == ApplyCreateFeatures

SpecFeat == InitFeat /\ [][NextFeat]_vars

\* Specification SpecHours: the same, over every hour of the day
InitHours ==
    /\ pc = "input"
    /\ df \in RecordSets(Records(FromStations, ToStations, AllHours, Delays),
                         0, MaxHourRows)
    /\ df_features = <<>>
    /\ OnlyFeatures

SpecHours == InitHours /\ [][NextFeat]_vars

-----------------------------------------------------------------------------
(* Specification SpecEval: evaluate_model applied to any model output      *)

InitEval ==
    /\ pc = "evaluate_input"
    /\ y_test \in UNION {[1..n -> Delays] : n \in 1..MaxTest}
    /\ raw_pred = [xgb_model |-> <<>>, rf_model |-> <<>>]
    /\ xgb_results = NoResults
    /\ df = <<>> /\ df_features = <<>>
    /\ NoConnection /\ NoMatrix /\ NoSplit /\ NoModels
    /\ files = [f \in ArtifactFiles |-> [kind |-> "absent"]]

ApplyEvaluateModel ==
    /\ pc = "evaluate_input"
    /\ \E raw \in [1..Len(y_test) -> RawOutputs] :
          /\ raw_pred' = [raw_pred EXCEPT !.xgb_model = raw]
          /\ xgb_results' = evaluate_model(raw, y_test)
    /\ pc' = "evaluate_output"
    /\ UNCHANGED << names, connVars, console, dataVars, splitVars, fitted,
                    rf_results, evaluated, bestVars, feature_names, fileVars,
                    sampleVars >>

NextEval == ApplyEvaluateModel

SpecEval == InitEval /\ [][NextEval]_vars

-----------------------------------------------------------------------------
(* Specification SpecPredict: the run, followed by a call of               *)
(* make_sample_prediction with any stations                                *)

CallSamplePrediction ==
    /\ pc = "done"
    /\ \E f \in FromStations, t \in ToStations, raw \in RawOutputs :
       \E k \in 1..Len(test_hours) :
          call' = make_sample_prediction(f, t, test_hours[k], raw)
    /\ console' = console \o call'.printed
    /\ pc' = "called"
    /\ UNCHANGED << names, connVars, dataVars, splitVars, fitted, evalVars,
                    bestVars, feature_names, fileVars, sample_k >>

NextPredict == Next \/ CallSamplePrediction

SpecPredict == Init /\ [][NextPredict]_vars

-----------------------------------------------------------------------------
(* Specification SpecEncode: the feature and encoding cells on any record  *)
(* set over all the station codes                                          *)

InitEncode ==
    /\ pc = "features"
    /\ df \in RecordSets(Records(FromStations, ToStations, {8}, {3}),
                         0, MaxEncodeRows)
    /\ df_features = <<>>
    /\ names = {"conn", "df"}
    /\ conn = "open" /\ connects = 1 /\ queries = 1
    /\ console = << "Successfully connected", "Loaded records" >>
    /\ NoMatrix /\ NoSplit /\ NoModels
    /\ y_test = <<>>
    /\ raw_pred = [xgb_model |-> <<>>, rf_model |-> <<>>]
    /\ xgb_results = NoResults
    /\ files = [f \in ArtifactFiles |-> [kind |-> "absent"]]

NextEncode == CreateFeatures \/ PrepareFeatures

SpecEncode == InitEncode /\ [][NextEncode]_vars

-----------------------------------------------------------------------------
(* Properties of the run                                                   *)

\* the selection cell has run
Selected == "best_model" \in names

\* a <= b for two root-mean-squared errors
RmseLeq(a, b) ==
    a.radicand.num * b.radicand.den <= b.radicand.num * a.radicand.den

\* C1: when the two held-out RMSE values differ, best_model, best_model_name
\* and best_results are those of the model with the lower RMSE, whichever of
\* the two models that is.
C1_LowerRmseSelected ==
    (Selected /\ xgb_results.rmse # rf_results.rmse) =>
        /\ RmseLeq(best_results.rmse, xgb_results.rmse)
        /\ RmseLeq(best_results.rmse, rf_results.rmse)
        /\ \/ /\ best_model = "xgb_model"
              /\ best_model_name = "XGBoost"
              /\ best_results = xgb_results
           \/ /\ best_model = "rf_model"
              /\ best_model_name = "Random Forest"
              /\ best_results = rf_results

C1_Witness ==
    /\ Selected
    /\ ~RmseLeq(xgb_results.rmse, rf_results.rmse)
    /\ best_model = "rf_model"
    /\ best_results = rf_results

\* C2 as claimed: on equal RMSE the selected model is the one evaluated
\* first, XGBoost.
C2_TieSelectsFirstEvaluated ==
    (Selected /\ xgb_results.rmse = rf_results.rmse) =>
        /\ best_model_name = evaluated[1]
        /\ best_model = "xgb_model"

\* C2 as the code has it: on equal RMSE the selected model is Random Forest,
\* the one evaluated second.
C2_TieSelectsRandomForest ==
    (Selected /\ xgb_results.rmse = rf_results.rmse) =>
        /\ evaluated = << "XGBoost", "Random Forest" >>
        /\ best_model_name = evaluated[2]
        /\ best_model = "rf_model"
        /\ best_results = rf_results

C2_Witness ==
    /\ Selected
    /\ xgb_results.rmse = rf_results.rmse
    /\ xgb_results.predictions # rf_results.predictions
    /\ best_model_name = "Random Forest"

\* C3: evaluate_model returns as predictions the raw model output with every
\* entry below 0 replaced by 0, and its metrics are those of the clamped
\* predictions.
C3_PredictionsClamped ==
    pc = "evaluate_output" =>
        LET raw == raw_pred.xgb_model
            p   == xgb_results.predictions
            n   == Len(y_test)
            se  == SumSeq([i \in 1..n |-> (y_test[i] - p[i]) * (y_test[i] - p[i])])
            ae  == SumSeq([i \in 1..n |-> Abs(y_test[i] - p[i])])
        IN  /\ Len(p) = Len(raw)
            /\ \A i \in 1..Len(raw) :
                  /\ p[i] >= 0
                  /\ p[i] = IF raw[i] < 0 THEN 0 ELSE raw[i]
            /\ xgb_results.rmse.radicand.num * n = se * xgb_results.rmse.radicand.den
            /\ xgb_results.mae.num * n = ae * xgb_results.mae.den
            /\ xgb_results.r2 = R2Score(y_test, p)

C3_Witness ==
    /\ pc = "evaluate_output"
    /\ raw_pred.xgb_model = << -2, 6 >>
    /\ xgb_results.predictions = << 0, 6 >>
    /\ y_test = << 3, 7 >>
    /\ xgb_results.mae = Rat(2, 1)

\* df_features has a row for the stations of the last call
CallHasData ==
    \E i \in 1..Len(df_features) :
        /\ df_features[i].from_station = call.from_station
        /\ df_features[i].to_station = call.to_station

\* C4: make_sample_prediction for a station pair without a row in
\* df_features prints "no data found" and returns None: it does not raise,
\* does not return 0 and calls neither the route encoder nor the model; for
\* a pair with a row it returns a number >= 0.
C4_MissingRouteReturnsNone ==
    pc = "called" =>
        /\ ~CallHasData =>
              /\ call.returned = None
              /\ call.returned # [value |-> 0]
              /\ call.printed = << "No data found for route" >>
              /\ console[Len(console)] = "No data found for route"
              /\ call.encoder_calls = 0
              /\ call.predict_calls = 0
        /\ CallHasData =>
              /\ DOMAIN call.returned = {"value"}
              /\ call.returned.value >= 0

C4_Witness ==
    /\ pc = "called"
    /\ call.from_station = "A" /\ call.to_station = "B_B"
    /\ Len(df_features) = 2
    /\ call.returned = None
    /\ call.predict_calls = 0

\* C5: when pyodbc.connect fails, the failure is caught and printed, there is
\* no second connection attempt, and pd.read_sql is never called.
C5_FailedConnectionNoQuery ==
    (pc # "connect" /\ "conn" \notin names) =>
        /\ connects = 1
        /\ conn = "none"
        /\ Len(console) >= 2
        /\ console[1] = "Connection failed"
        /\ queries = 0
        /\ df = <<>>
        /\ pc \in {"load", "aborted"}

C5_Witness ==
    /\ pc = "aborted"
    /\ "conn" \notin names
    /\ queries = 0
    /\ console[Len(console)] = "NameError: name 'conn' is not defined"

\* C6: every run that opens the connection reaches the close step: a run
\* that has ended, however it ended, has closed the connection it opened.
C6_OpenedConnectionIsClosed ==
    (pc \in {"done", "aborted"} /\ "conn" \in names) => conn = "closed"

\* C7: no artifact is written before both models are evaluated and the
\* selection is made; once all three are written, trained_model.pkl holds
\* the selected model, encoders.pkl the encoder fitted in this run, and
\* model_info.json the selected model's label, that model's RMSE, MAE and R2,
\* and the 10 feature names in training column order.
C7_ArtifactsDescribeSelection ==
    /\ written # {} =>
          /\ evaluated = << "XGBoost", "Random Forest" >>
          /\ {"xgb_results", "rf_results"} \subseteq names
          /\ Selected
    /\ written = ArtifactFiles =>
          LET chosen == files["trained_model.pkl"].object
              label  == IF chosen = "xgb_model" THEN "XGBoost" ELSE "Random Forest"
              res    == IF chosen = "xgb_model" THEN xgb_results ELSE rf_results
              info   == files["model_info.json"]
          IN  /\ chosen = best_model
              /\ chosen \in fitted
              /\ chosen = "xgb_model" <=> ~RmseLeq(rf_results.rmse, xgb_results.rmse)
              /\ files["encoders.pkl"].object = label_encoders
              /\ \A i \in 1..Len(df_features) :
                    \E c \in 1..Len(label_encoders.route_encoder.classes_) :
                        /\ label_encoders.route_encoder.classes_[c] = df_features[i].route
                        /\ X[i].route = c - 1
              /\ info.model_type = label
              /\ info.performance
                    = [rmse |-> res.rmse, mae |-> res.mae, r2 |-> res.r2]
              /\ Len(info.feature_names) = 10
              /\ info.feature_names = feature_columns

C7_Witness ==
    /\ written = ArtifactFiles
    /\ files["trained_model.pkl"].object = "rf_model"
    /\ files["model_info.json"].model_type = "Random Forest"
    /\ xgb_results.mae # rf_results.mae

-----------------------------------------------------------------------------
(* Properties of create_features                                           *)

RECURSIVE SumDelays(_, _)
SumDelays(rows, idx) ==
    IF idx = {} THEN 0
    ELSE LET i == CHOOSE j \in idx : TRUE
         IN  rows[i].delay + SumDelays(rows, idx \ {i})

\* the input rows whose route key is that of input row i
SameRoute(i) ==
    {j \in 1..Len(df) : RouteKey(df[j]) = RouteKey(df[i])}

ExampleRows ==
    << QueryRow("A", "B", 8, 5), QueryRow("A", "B", 8, 7),
       QueryRow("A", "B", 20, 3) >>

\* C8: for every hour in 0..23, is_rush_hour is true iff the hour is in 7..9
\* or 17..19, is_night is true iff the hour is <= 6 or >= 22, and the two are
\* never both true.
C8_RushNightExclusive ==
    pc = "output" =>
        \A i \in 1..Len(df_features) :
            LET r == df_features[i]
            IN  /\ r.hour = df[i].hour
                /\ r.is_rush_hour = (r.hour \in {7, 8, 9, 17, 18, 19})
                /\ r.is_night = (r.hour \in (0..6) \cup {22, 23})
                /\ ~(r.is_rush_hour /\ r.is_night)

C8_Witness ==
    /\ pc = "output"
    /\ Len(df_features) = 1
    /\ df[1].hour = 19
    /\ df_features[1].is_rush_hour
    /\ ~df_features[1].is_night

\* C9: the output of create_features has one row per input row, and each row
\* carries the mean delay and the number of all input rows that share its
\* route key from_station + "_" + to_station; the rows (A,B,8,5), (A,B,8,7),
\* (A,B,20,3) give route "A_B" mean 5, count 3 and the sample standard
\* deviation of [5,7,3].
C9_RouteStatsOverWholeInput ==
    pc = "output" =>
        /\ Len(df_features) = Len(df)
        /\ \A i \in 1..Len(df) :
            LET r == df_features[i]
                n == Cardinality(SameRoute(i))
            IN  /\ r.from_station = df[i].from_station
                /\ r.to_station = df[i].to_station
                /\ r.delay = df[i].delay
                /\ r.route = df[i].from_station \o "_" \o df[i].to_station
                /\ r.route_count = n
                /\ r.route_avg_delay.num * n
                      = SumDelays(df, SameRoute(i)) * r.route_avg_delay.den
        /\ df = ExampleRows =>
            \A i \in 1..3 :
                /\ df_features[i].route = "A_B"
                /\ df_features[i].route_avg_delay = Rat(5, 1)
                /\ df_features[i].route_count = 3
                \* ((5-5)^2 + (7-5)^2 + (3-5)^2) / (3 - 1)
                /\ df_features[i].route_std_delay = Sqrt(Rat(0 + 4 + 4, 2))

\* two station pairs share the key "A_B_B" and a third row has its own key
C9_Witness ==
    /\ pc = "output"
    /\ Len(df) = 3
    /\ df[1].from_station = "A" /\ df[1].to_station = "B_B" /\ df[1].delay = 3
    /\ df[2].from_station = "A_B" /\ df[2].to_station = "B" /\ df[2].delay = 7
    /\ df[3].from_station = "A" /\ df[3].to_station = "B"
    /\ df_features[1].route_count = 2
    /\ df_features[1].route_avg_delay = Rat(5, 1)
    /\ df_features[3].route_count = 1

\* C10: route_std_delay is exactly 0 on every row whose route has a single
\* observation in the input of create_features.
C10_SingleObservationStdZero ==
    pc = "output" =>
        \A i \in 1..Len(df) :
            Cardinality(SameRoute(i)) = 1 =>
                df_features[i].route_std_delay = Sqrt(Rat(0, 1))

C10_Witness ==
    /\ pc = "output"
    /\ Len(df) = 3
    /\ Cardinality(SameRoute(1)) = 1
    /\ Cardinality(SameRoute(2)) = 2
    /\ df_features[1].route_std_delay = Sqrt(Rat(0, 1))
    /\ df_features[2].route_std_delay # Sqrt(Rat(0, 1))

-----------------------------------------------------------------------------
(* Properties of the route encoder                                         *)

\* the distinct route keys of df_features
FittedKeys == {df_features[i].route : i \in 1..Len(df_features)}

\* C11: the fitted route encoder maps the distinct route keys one to one
\* onto 0 .. distinct_count - 1, and transforming a key with the stored
\* encoder label_encoders['route_encoder'] gives the integer the feature
\* matrix holds for that key.
C11_EncoderBijectionRoundTrip ==
    "label_encoders" \in names =>
        LET classes == label_encoders.route_encoder.classes_
            n       == Cardinality(FittedKeys)
        IN  /\ Len(classes) = n
            /\ {classes[c] : c \in 1..Len(classes)} = FittedKeys
            /\ Len(X) = Len(df_features)
            /\ \A i \in 1..Len(X) :
                  LET t == LabelEncoderTransform(label_encoders.route_encoder,
                                                 df_features[i].route)
                  IN  /\ ~t.raised
                      /\ t.code = X[i].route
                      /\ X[i].route \in 0..(n - 1)
                      /\ classes[X[i].route + 1] = df_features[i].route
            /\ \A i, j \in 1..Len(X) :
                  X[i].route = X[j].route
                      <=> df_features[i].route = df_features[j].route
            /\ {X[i].route : i \in 1..Len(X)} = 0..(n - 1)

C11_Witness ==
    /\ "label_encoders" \in names
    /\ Len(df) = 3
    /\ df[1].from_station = "A" /\ df[1].to_station = "B_B"
    /\ df[2].from_station = "A_B" /\ df[2].to_station = "B"
    /\ df[3].from_station = "A" /\ df[3].to_station = "B"
    /\ X[1].route = 1 /\ X[2].route = 1 /\ X[3].route = 0
    /\ Len(label_encoders.route_encoder.classes_) = 2

====
